---------------------------- MODULE Spec2Model ----------------------------
(***************************************************************************)
(* A model of AviationParser.py: the decoder of the AVIATION file system   *)
(* (Directory / Entry / File construction over a memory-mapped archive),   *)
(* the report/extract walk of the resolved tree, the class-level           *)
(* configuration and the command-line entry point.                         *)
(*                                                                         *)
(* The archive is a sequence of bytes (0..255).  Python objects live in a  *)
(* heap (nodes) and are named by their index; a node's directories/files   *)
(* attributes are list objects that copy_attr shares by reference, which   *)
(* the heap records by naming the node that owns the list objects.         *)
(* The recursion of Directory.__init__ and of Directory.walk is an         *)
(* explicit call stack; one step runs the code between two calls/returns.  *)
(***************************************************************************)
EXTENDS Integers, Sequences, FiniteSets, TLC

VARIABLES
    prog,          \* "lib": a caller of the Aviation class; "main": the __main__ script
    args,          \* the run's inputs: input file present, working dir legal, -e flag
    archive,       \* the bytes of the input file on disk
    Config,        \* Aviation.Config (class attribute)
    bin,           \* Aviation.bin (class attribute): the mapped archive
    dir_map,       \* Directory.dir_map (class attribute): pointer -> node
    nodes,         \* the heap of File / Directory objects
    root,          \* self.root of the Aviation object under construction (0: unset)
    stack,         \* call stack of Directory.__init__
    wstack,        \* call stack of Directory.walk
    phase,         \* position of the driver
    error,         \* type of the exception that left the last call ("none" if none)
    fsDirs,        \* directories that exist under the working directory
    fsFiles,       \* files under the working directory: path -> content
    exitStatus,    \* exit status of the __main__ script (-1 while running)
    hist           \* history: what the run did (read by the properties only)

vars == <<prog, args, archive, Config, bin, dir_map, nodes, root, stack, wstack,
          phase, error, fsDirs, fsFiles, exitStatus, hist>>

---------------------------------------------------------------------------
(* Bounds of the model *)

\* depth_limit takes the values 0..MaxDepthLimit
MaxDepthLimit == 2
\* the interpreter's recursion limit (sys.getrecursionlimit()), scaled down
RecursionLimit == 6
\* how many Aviation objects one process constructs
MaxConstructions == 2
\* number of raw data bytes that follow the directories in the archives
DataLen == 5

---------------------------------------------------------------------------
(* Generic helpers *)

Min(a, b) == IF a < b THEN a ELSE b

Range(s) == {s[i] : i \in DOMAIN s}

\* Python's s[a:b] for 0 <= a, 0 <= b: both ends are clipped to len(s)
Slice(s, a, b) == IF b <= a THEN <<>> ELSE SubSeq(s, Min(a, Len(s)) + 1, Min(b, Len(s)))

Pow2(n) == 2 ^ n

---------------------------------------------------------------------------
(* The binary format (module docstring): little-endian 32-bit fields *)

WordSize == 4
EntrySize == 20
IsDirBit == 15
\* the one pointer of Directory.invalid_entries
InvalidPointer == 625308844      \* 0x254574ac

\* struct.pack("<I", v)
U32(v) == <<v % 256, (v \div 256) % 256, (v \div 65536) % 256, (v \div 16777216) % 256>>

\* typedef struct ENTRY
EncodeEntry(e) ==
    U32(e.offset_into_str_list) \o U32(e.pointer) \o U32(e.size)
        \o U32(e.attributes) \o U32(e.reserved1)

RECURSIVE EncodeEntries(_)
EncodeEntries(es) ==
    IF es = <<>> THEN <<>> ELSE EncodeEntry(Head(es)) \o EncodeEntries(Tail(es))

\* typedef struct DIRECTORY; num_entries and strings_len are written as given,
\* so that a header can claim more than the archive holds
EncodeDirectory(d) ==
    U32(d.num_entries) \o EncodeEntries(d.entries)
        \o U32(d.strings_len) \o d.strings

---------------------------------------------------------------------------
(* The archives the runs read.  Three directories (the root at offset 0,   *)
(* A and B) are followed by DataLen bytes of raw data; what the entries    *)
(* point to is drawn from small sets, so that the family holds pointer     *)
(* cycles, duplicate pointers, denylisted pointers, tables that run past   *)
(* the end of the archive and names without a terminating NUL.             *)

DirSize(n, slen) == WordSize + n * EntrySize + WordSize + slen

OffRoot == 0
OffA == OffRoot + DirSize(2, 4)
OffB == OffA + DirSize(1, 2)
OffF == OffB + DirSize(1, 3)

\* "root", "a", "b" as bytes
RootName == <<114, 111, 111, 116>>
NameA == <<97>>
NameB == <<98>>

\* attr words: bit 15 is is_folder, the other bits are reserved (some set here)
DirAttr == Pow2(IsDirBit) + 5
FileAttr == Pow2(IsDirBit + 1) + 3

DirEntry(nameOff, p) ==
    [offset_into_str_list |-> nameOff, pointer |-> p, size |-> 0,
     attributes |-> DirAttr, reserved1 |-> 0]

FileEntry(nameOff, p, sz) ==
    [offset_into_str_list |-> nameOff, pointer |-> p, size |-> sz,
     attributes |-> FileAttr, reserved1 |-> 0]

\* what the second entry of the root is
R2Kinds == {"dirA", "dirB", "dirRoot", "fileF", "dirInvalid", "fileBig"}
\* what the entry of A is
A1Kinds == {"dirB", "fileF", "dirRoot", "fileRoot", "dirF"}
\* what B is: its entry, or how it is malformed
BKinds == {"fileF", "dirA", "fileInvalid", "unterminated", "stringsOver"}

EntryOfKind(k, nameOff) ==
    CASE k = "dirA"        -> DirEntry(nameOff, OffA)
      [] k = "dirB"        -> DirEntry(nameOff, OffB)
      [] k = "dirRoot"     -> DirEntry(nameOff, OffRoot)
      [] k = "dirF"        -> DirEntry(nameOff, OffF)
      [] k = "dirInvalid"  -> DirEntry(nameOff, InvalidPointer)
      [] k = "fileF"       -> FileEntry(nameOff, OffF + 1, 2)
      [] k = "fileRoot"    -> FileEntry(nameOff, OffRoot, 2)
      [] k = "fileInvalid" -> FileEntry(nameOff, InvalidPointer, 2)
      [] k = "fileBig"     -> FileEntry(nameOff, OffF + 1, DataLen + 3)
      [] k = "unterminated" -> FileEntry(2, OffF + 1, 2)
      [] k = "stringsOver" -> FileEntry(nameOff, OffF + 1, 2)

\* the raw data: read as a directory header it claims 2 entries
DataBytes == [i \in 1..DataLen |-> IF i = 1 THEN 2 ELSE IF i <= WordSize THEN 0 ELSE 6 + i]

EncodeArchive(s) ==
    EncodeDirectory([num_entries |-> 2,
                     entries |-> <<DirEntry(0, OffA), EntryOfKind(s.r2, 2)>>,
                     strings_len |-> 4,
                     strings |-> NameA \o <<0>> \o NameB \o <<0>>])
    \o EncodeDirectory([num_entries |-> 1,
                     entries |-> <<EntryOfKind(s.a1, 0)>>,
                     strings_len |-> 2,
                     strings |-> NameA \o <<0>>])
    \o EncodeDirectory([num_entries |-> 1,
                     entries |-> <<EntryOfKind(s.b, 0)>>,
                     strings_len |-> IF s.b = "stringsOver" THEN 3 + DataLen + 50 ELSE 3,
                     strings |-> NameA \o <<0>> \o NameB])
    \o DataBytes

\* B is decoded only when an entry points to it; an archive whose B is out of
\* reach is kept once
Shapes ==
    {s \in [r2 : R2Kinds, a1 : A1Kinds, b : BKinds] :
        (s.r2 # "dirB" /\ s.a1 # "dirB") => s.b = "fileF"}

Archives == {EncodeArchive(s) : s \in Shapes}

---------------------------------------------------------------------------
(* StructBuilder *)

TypeI == [code |-> "I", count |-> 1]
TypeS(n) == [code |-> "s", count |-> n]

\* struct.calcsize
calcsize(type) == IF type.code = "I" THEN WordSize ELSE type.count

\* little-endian value of the 4 bytes at 0-based offset off
DecodeU32(buf, off) ==
    buf[off + 1] + 256 * buf[off + 2] + 65536 * buf[off + 3] + 16777216 * buf[off + 4]

\* the byte at 0-based offset k, 0 past the end of the buffer
ByteOrZero(buf, k) == IF k < Len(buf) THEN buf[k + 1] ELSE 0

\* an unpack_from that reads past the end of the buffer as zeros
unpack_from_unchecked(type, buf, offset) ==
    [ok |-> TRUE,
     val |-> IF type.code = "I"
             THEN ByteOrZero(buf, offset) + 256 * ByteOrZero(buf, offset + 1)
                      + 65536 * ByteOrZero(buf, offset + 2)
                      + 16777216 * ByteOrZero(buf, offset + 3)
             ELSE [k \in 1..type.count |-> ByteOrZero(buf, offset + k - 1)]]

\* struct.unpack_from(type, buf, offset): struct.error unless the buffer holds
\* calcsize(type) bytes from offset on
unpack_from(type, buf, offset) ==
    IF offset + calcsize(type) > Len(buf)
    THEN [ok |-> FALSE, val |-> 0]
    ELSE [ok |-> TRUE,
          val |-> IF type.code = "I" THEN DecodeU32(buf, offset)
                  ELSE SubSeq(buf, offset + 1, offset + type.count)]

StructDef(name, type) == [name |-> name, type |-> type]

\* StructBuilder.build_struct: the members are read one after the other from
\* sb.offset on and set on the object; a failed read raises struct.error
RECURSIVE build_struct(_, _, _, _)
build_struct(buf, sb, object, definition) ==
    IF definition = <<>> THEN [ok |-> TRUE, offset |-> sb, object |-> object]
    ELSE LET member == Head(definition)
             r == unpack_from(member.type, buf, sb)
         IN  IF ~r.ok THEN [ok |-> FALSE, offset |-> sb, object |-> object]
             ELSE build_struct(buf, sb + calcsize(member.type),
                               (member.name :> r.val) @@ object, Tail(definition))

BitFieldDef(name, from_bit, to_bit) == [name |-> name, from_bit |-> from_bit, to_bit |-> to_bit]

\* a bit field read without the mask: full_value >> from_bit
BitField_unmasked(full_value, from_bit, to_bit) == full_value \div Pow2(from_bit)

\* (full_value & ((2 << to_bit) - 1)) >> from_bit, for 0 <= full_value < 2^31
BitField(full_value, from_bit, to_bit) ==
    (IF to_bit + 1 >= 31 THEN full_value ELSE full_value % Pow2(to_bit + 1))
        \div Pow2(from_bit)

\* StructBuilder.build_bit_field
RECURSIVE build_bit_field(_, _, _)
build_bit_field(object, definition, full_value) ==
    IF definition = <<>> THEN object
    ELSE LET member == Head(definition)
         IN  build_bit_field(
                 (member.name :> BitField(full_value, member.from_bit, member.to_bit)) @@ object,
                 Tail(definition), full_value)

---------------------------------------------------------------------------
(* Entry *)

DEF_ENTRY_HEADER ==
    << StructDef("offset_into_str_list", TypeI),
       StructDef("pointer", TypeI),
       StructDef("size", TypeI),
       StructDef("attributes", TypeI),
       StructDef("reserved1", TypeI) >>

DEF_ATTR ==
    << BitFieldDef("reserved2", 0, 14),
       BitFieldDef("is_dir", IsDirBit, IsDirBit),
       BitFieldDef("reserved3", 16, 31) >>

\* Entry.__init__, line 87: the bit fields of the attributes just read
EntryBits(r) ==
    IF ~r.ok THEN r
    ELSE [r EXCEPT !.object = build_bit_field(r.object, DEF_ATTR, r.object.attributes)]

\* Entry.__init__: reads one entry at the parent's cursor
EntryInit(buf, sb, depth) ==
    EntryBits(build_struct(buf, sb, [depth |-> depth], DEF_ENTRY_HEADER))

\* [Entry(self, self.depth + 1) for i in xrange(self.num_entries)]: the entries
\* after the first one e, which stops the comprehension when it failed
RECURSIVE ReadEntriesAfter(_, _, _, _)
ReadEntriesAfter(buf, e, n, depth) ==
    IF ~e.ok THEN [ok |-> FALSE, offset |-> e.offset, entries |-> <<>>]
    ELSE IF n = 0 THEN [ok |-> TRUE, offset |-> e.offset, entries |-> <<e.object>>]
    ELSE [ReadEntriesAfter(buf, EntryInit(buf, e.offset, depth), n - 1, depth)
             EXCEPT !.entries = <<e.object>> \o @]

ReadEntries(buf, sb, n, depth) ==
    IF n = 0 THEN [ok |-> TRUE, offset |-> sb, entries |-> <<>>]
    ELSE ReadEntriesAfter(buf, EntryInit(buf, sb, depth), n - 1, depth)

DecodeFailed == [ok |-> FALSE, entries |-> <<>>, name_list |-> <<>>]

\* line 152, read: the decoded directory
DecodeResult(es, s) ==
    IF ~s.ok THEN DecodeFailed
    ELSE [ok |-> TRUE, entries |-> es.entries, name_list |-> s.object.name_list]

\* line 152: the string table, name_list_length bytes
DecodeNameList(buf, es, l) ==
    IF ~l.ok THEN DecodeFailed
    ELSE DecodeResult(es, build_struct(buf, l.offset, <<>>,
                 <<StructDef("name_list", TypeS(l.object.name_list_length))>>))

\* line 151: name_list_length, read after the entries
DecodeLength(buf, es) ==
    IF ~es.ok THEN DecodeFailed
    ELSE DecodeNameList(buf, es, build_struct(buf, es.offset, <<>>,
                 <<StructDef("name_list_length", TypeI)>>))

\* line 150: the entries, num_entries of them
DecodeEntries(buf, h, depth) ==
    IF ~h.ok THEN DecodeFailed
    ELSE DecodeLength(buf, ReadEntries(buf, h.offset, h.object.num_entries, depth + 1))

\* Directory.__init__, lines 148-152: the header, the entries, the string table
DecodeDirectory(buf, base_offset, depth) ==
    DecodeEntries(buf, build_struct(buf, base_offset, <<>>,
                           <<StructDef("num_entries", TypeI)>>), depth)

\* name_list.index('\0', start): the 0-based index of the first NUL at or after
\* start, -1 when there is none (Python raises ValueError)
IndexOfNul(name_list, start) ==
    LET hits == {i \in start..(Len(name_list) - 1) : name_list[i + 1] = 0}
    IN  IF hits = {} THEN -1 ELSE CHOOSE i \in hits : \A j \in hits : i <= j

---------------------------------------------------------------------------
(* Configuration *)

BoolVal(b) == [type |-> "bool", val |-> b]
IntVal(n) == [type |-> "int", val |-> n]
StrVal(x) == [type |-> "str", val |-> x]

\* Aviation.Config as the class body sets it
DefaultConfig ==
    [avoid_double_entries |-> BoolVal(TRUE),
     write_to_disk |-> BoolVal(FALSE),
     depth_limit |-> IntVal(0)]

\* Directory.invalid_entries
invalid_entries == {InvalidPointer}

---------------------------------------------------------------------------
(* The heap *)

\* a Directory object before its lists exist (lines 133-136)
NewDirectory(self_entry, depth, parent_path) ==
    [kind |-> "dir", name |-> self_entry.name, depth |-> depth,
     path |-> Append(parent_path, self_entry.name),
     base_offset |-> self_entry.pointer, size |-> 0, eid |-> self_entry.eid,
     listsOf |-> 0, directories |-> <<>>, files |-> <<>>]

\* File.__init__
NewFile(self_entry, depth, parent_path) ==
    [kind |-> "file", name |-> self_entry.name, depth |-> depth,
     path |-> Append(parent_path, self_entry.name),
     base_offset |-> self_entry.pointer, size |-> self_entry.size, eid |-> self_entry.eid,
     listsOf |-> 0, directories |-> <<>>, files |-> <<>>]

\* the list objects a directory node's attributes name (empty while it has none)
Directories(nd, n) == IF nd[n].listsOf = 0 THEN <<>> ELSE nd[nd[n].listsOf].directories
Files(nd, n) == IF nd[n].listsOf = 0 THEN <<>> ELSE nd[nd[n].listsOf].files

\* copy_attr that copies the lists instead of sharing them
copy_attr_by_value(nd, self, other) ==
    [nd EXCEPT ![self].listsOf = self,
               ![self].directories = nd[nd[other].listsOf].directories,
               ![self].files = nd[nd[other].listsOf].files]

\* Directory.copy_attr: self's attributes name the list objects of other
copy_attr(nd, self, other) == [nd EXCEPT ![self].listsOf = nd[other].listsOf]

\* a Directory.__init__ that does not register itself before it recurses
RegisterNothing(dm, base_offset, self) == dm

\* Directory.dir_map[base_offset] = self
Register(dm, base_offset, self) == (base_offset :> self) @@ dm

\* the except clauses of Aviation.__init__: struct.error is wrapped; for any
\* other exception "except e" evaluates the unbound name e
ExceptClauses(exc) == IF exc = "struct.error" THEN "AviationException" ELSE "NameError"

\* __should_visit_entry without the look-up in invalid_entries
should_visit_entry_no_denylist(cfg, dm, entry) ==
    IF cfg.avoid_double_entries.val /\ entry.pointer \in DOMAIN dm THEN FALSE
    ELSE IF cfg.depth_limit.val # 0 /\ entry.depth > cfg.depth_limit.val THEN FALSE
    ELSE TRUE

\* __should_visit_entry without the look-up in dir_map
should_visit_entry_no_double_check(cfg, dm, entry) ==
    IF entry.pointer \in invalid_entries THEN FALSE
    ELSE IF cfg.depth_limit.val # 0 /\ entry.depth > cfg.depth_limit.val THEN FALSE
    ELSE TRUE

\* __should_visit_entry without the depth limit
should_visit_entry_no_depth_limit(cfg, dm, entry) ==
    IF entry.pointer \in invalid_entries THEN FALSE
    ELSE IF cfg.avoid_double_entries.val /\ entry.pointer \in DOMAIN dm THEN FALSE
    ELSE TRUE

\* Directory.__should_visit_entry
should_visit_entry(cfg, dm, entry) ==
    IF entry.pointer \in invalid_entries THEN FALSE
    ELSE IF cfg.avoid_double_entries.val /\ entry.pointer \in DOMAIN dm THEN FALSE
    ELSE IF cfg.depth_limit.val # 0 /\ entry.depth > cfg.depth_limit.val THEN FALSE
    ELSE TRUE

NoException == [exc |-> "none", decoded |-> FALSE, entries |-> <<>>, name_list |-> <<>>]

\* lines 148-155 for a directory self just registered: struct.error, or the
\* entries and the string table with self's two lists created
Decoded(nd, dm, self, d) ==
    IF ~d.ok
    THEN [exc |-> "struct.error", decoded |-> TRUE, entries |-> <<>>, name_list |-> <<>>,
          outcome |-> "raise", nodes |-> nd, dir_map |-> dm]
    ELSE [exc |-> "none", decoded |-> TRUE, entries |-> d.entries,
          name_list |-> d.name_list, outcome |-> "loop",
          nodes |-> [nd EXCEPT ![self].listsOf = self], dir_map |-> dm]

\* lines 138-146 for the new object self, the last of nd
Resolve(nd, dm, buf, cfg, self, depth) ==
    IF nd[self].base_offset \in DOMAIN dm
    THEN IF ~cfg.avoid_double_entries.val
         THEN IF nd[dm[nd[self].base_offset]].listsOf = 0
              THEN [NoException EXCEPT !.exc = "AttributeError"]
                       @@ [outcome |-> "raise", nodes |-> nd, dir_map |-> dm]
              ELSE NoException @@ [outcome |-> "return",
                            nodes |-> copy_attr(nd, self, dm[nd[self].base_offset]),
                            dir_map |-> dm]
         ELSE [NoException EXCEPT !.exc = "AssertionError"]
                  @@ [outcome |-> "raise", nodes |-> nd, dir_map |-> dm]
    ELSE Decoded(nd, Register(dm, nd[self].base_offset, self), self,
                 DecodeDirectory(buf, nd[self].base_offset, depth))

\* Directory.__init__ up to the loop over the entries (lines 133-155), for a
\* new object self = Len(nd) + 1: what it does to the heap and to dir_map, and
\* how it ends: "return" (an alias), "raise", or "loop" (decoded)
DirectoryPrologue(nd, dm, buf, cfg, self_entry, depth, parent_path) ==
    Resolve(Append(nd, NewDirectory(self_entry, depth, parent_path)),
            dm, buf, cfg, Len(nd) + 1, depth)

Frame(node, entries, name_list) ==
    [node |-> node, entries |-> entries, name_list |-> name_list, i |-> 1]

---------------------------------------------------------------------------
(* The file system under the working directory; a path is the sequence of  *)
(* names below the working directory                                       *)

IsPrefix(p, q) == Len(p) <= Len(q) /\ SubSeq(q, 1, Len(p)) = p

Prefixes(p) == {SubSeq(p, 1, k) : k \in 0..Len(p)}

RootPath == <<RootName>>

\* shutil.rmtree(root_dir)
RmTreeDirs(dirs, p) == {d \in dirs : ~IsPrefix(p, d)}
RmTreeFiles(files, p) ==
    [f \in {g \in DOMAIN files : ~IsPrefix(p, g)} |-> files[f]]

\* os.makedirs(path) raises OSError when path exists or a prefix is a file
MakedirsFails(dirs, files, path) ==
    \/ path \in dirs
    \/ \E q \in Prefixes(path) : q \in DOMAIN files

\* open(path, "wb") raises IOError when the parent is no directory or path is one
OpenFails(dirs, path) ==
    \/ SubSeq(path, 1, Len(path) - 1) \notin dirs
    \/ path \in dirs

---------------------------------------------------------------------------
(* The initial state: the class attributes as the class bodies set them,   *)
(* an archive on disk, and a working directory that may already hold a     *)
(* root directory with a file in it                                        *)

StaleFile == <<RootName, NameB>>

Init ==
    /\ prog \in {"lib", "main"}
    /\ args \in [input_exists : BOOLEAN, working_dir_ok : BOOLEAN, extract_files : BOOLEAN]
    /\ prog = "lib" =>
           args = [input_exists |-> TRUE, working_dir_ok |-> TRUE, extract_files |-> FALSE]
    /\ archive \in Archives
    /\ Config = DefaultConfig
    /\ bin = <<>>
    /\ dir_map = <<>>
    /\ nodes = <<>>
    /\ root = 0
    /\ stack = <<>>
    /\ wstack = <<>>
    /\ phase = "idle"
    /\ error = "none"
    /\ \E pre \in BOOLEAN :
          /\ (~args.working_dir_ok) => ~pre
          /\ fsDirs = IF pre THEN {<<>>, RootPath} ELSE {<<>>}
          /\ fsFiles = IF pre THEN (StaleFile :> <<1>>) ELSE <<>>
          /\ hist = [decodes |-> <<>>, entries |-> <<>>, raised |-> "none",
                     rmtree |-> FALSE, constructions |-> 0, outcomes |-> <<>>,
                     preRoot |-> pre, walks |-> 0]
    /\ exitStatus = -1

---------------------------------------------------------------------------
(* Aviation.SetConfig *)

ConfigKeys == {"avoid_double_entries", "write_to_disk", "depth_limit", "verbose"}

\* the values a caller passes, by Python type
BoolValues == {BoolVal(b) : b \in BOOLEAN}
IntValues == {IntVal(n) : n \in 0..MaxDepthLimit}
StrValues == {StrVal("yes")}

\* a SetConfig that passes over a key it does not know
SetConfigResult_unknown_ignored(cfg, key, value) ==
    IF key \in DOMAIN cfg
    THEN IF cfg[key].type = value.type
         THEN [ok |-> TRUE, Config |-> [cfg EXCEPT ![key] = value]]
         ELSE [ok |-> FALSE, Config |-> cfg]
    ELSE [ok |-> TRUE, Config |-> cfg]

\* one key=value of SetConfig: the new Config, or the AviationException
SetConfigResult(cfg, key, value) ==
    IF key \in DOMAIN cfg
    THEN IF cfg[key].type = value.type
         THEN [ok |-> TRUE, Config |-> [cfg EXCEPT ![key] = value]]
         ELSE [ok |-> FALSE, Config |-> cfg]
    ELSE [ok |-> FALSE, Config |-> cfg]

\* a caller of the class configures it before it constructs an Aviation object
SetConfig(key, value) ==
    /\ prog = "lib"
    /\ phase = "idle"
    /\ LET r == SetConfigResult(Config, key, value)
       IN  /\ Config' = r.Config
           /\ error' = IF r.ok THEN "none" ELSE "AviationException"
    /\ UNCHANGED <<prog, args, archive, bin, dir_map, nodes, root, stack, wstack,
                   phase, fsDirs, fsFiles, exitStatus, hist>>

---------------------------------------------------------------------------
(* Construction: Aviation.__init__ and Directory.__init__ *)

LogDecode(h, r, ptr) ==
    IF r.decoded
    THEN [h EXCEPT !.decodes = Append(@, [pointer |-> ptr, run |-> h.constructions])]
    ELSE h

\* an exception leaves Aviation.__init__ through its except clauses
LogRaise(h, exc) ==
    [h EXCEPT !.raised = exc,
              !.outcomes = Append(@, [error |-> ExceptClauses(exc), raised |-> exc,
                                      root |-> 0])]

LogConstructed(h, r) ==
    [h EXCEPT !.outcomes = Append(@, [error |-> "none", raised |-> "none", root |-> r])]

\* Aviation.__init__ with the first lines of the root's Directory.__init__
AviationInit ==
    /\ IF phase = "idle" THEN TRUE
       ELSE prog = "lib" /\ phase \in {"failed", "walked"}
                /\ hist.constructions < MaxConstructions
    /\ wstack' = <<>>
    /\ UNCHANGED <<prog, args, archive, Config, exitStatus>>
    /\ IF ~args.input_exists \/ ~args.working_dir_ok
       THEN /\ phase' = "failed"
            /\ error' = "AviationException"
            /\ root' = 0
            /\ hist' = [hist EXCEPT !.constructions = @ + 1,
                                    !.raised = "AviationException",
                                    !.outcomes = Append(@, [error |-> "AviationException",
                                                            raised |-> "AviationException",
                                                            root |-> 0])]
            /\ UNCHANGED <<bin, dir_map, nodes, stack, fsDirs, fsFiles>>
       ELSE \E rm \in {Config.write_to_disk.val /\ RootPath \in fsDirs},
               r \in {DirectoryPrologue(nodes, dir_map, archive, Config,
                         [pointer |-> OffRoot, name |-> RootName, eid |-> 0], 0, <<>>)} :
            \E h1 \in {LogDecode([hist EXCEPT !.constructions = @ + 1, !.raised = "none",
                                              !.rmtree = @ \/ rm], r, OffRoot)} :
                /\ bin' = archive
                /\ fsDirs' = IF rm THEN RmTreeDirs(fsDirs, RootPath) ELSE fsDirs
                /\ fsFiles' = IF rm THEN RmTreeFiles(fsFiles, RootPath) ELSE fsFiles
                /\ nodes' = r.nodes
                /\ dir_map' = r.dir_map
                /\ CASE r.outcome = "raise" ->
                            /\ phase' = "failed"
                            /\ error' = ExceptClauses(r.exc)
                            /\ root' = 0
                            /\ stack' = <<>>
                            /\ hist' = LogRaise(h1, r.exc)
                     [] r.outcome = "return" ->
                            /\ phase' = "constructed"
                            /\ error' = "none"
                            /\ root' = Len(r.nodes)
                            /\ stack' = <<>>
                            /\ hist' = LogConstructed(h1, Len(r.nodes))
                     [] r.outcome = "loop" ->
                            /\ phase' = "constructing"
                            /\ error' = "none"
                            /\ root' = 0
                            /\ stack' = <<Frame(Len(r.nodes), r.entries, r.name_list)>>
                            /\ hist' = h1

Top(st) == st[Len(st)]
Pop(st) == SubSeq(st, 1, Len(st) - 1)
SetTop(st, f) == [st EXCEPT ![Len(st)] = f]

\* an exception raised below Aviation.__init__ unwinds every Directory.__init__
\* and leaves through the except clauses
RaiseInConstruction(exc, nd, dm, h) ==
    /\ phase' = "failed"
    /\ error' = ExceptClauses(exc)
    /\ root' = 0
    /\ stack' = <<>>
    /\ nodes' = nd
    /\ dir_map' = dm
    /\ hist' = LogRaise(h, exc)

\* one iteration of the loop over the entries (lines 158-166), with the first
\* lines of the child's Directory.__init__ when the entry is a directory
VisitEntry ==
    /\ phase = "constructing"
    /\ stack # <<>>
    /\ Top(stack).i <= Len(Top(stack).entries)
    /\ UNCHANGED <<prog, args, archive, Config, bin, wstack, fsDirs, fsFiles, exitStatus>>
    /\ \E f \in {Top(stack)} :
       \E self \in {f.node}, raw \in {f.entries[f.i]}, eid \in {Len(hist.entries) + 1},
          next \in {SetTop(stack, [f EXCEPT !.i = @ + 1])} :
       \E nul \in {IndexOfNul(f.name_list, raw.offset_into_str_list)} :
       \E entry \in {[name |-> Slice(f.name_list, raw.offset_into_str_list, nul),
                      eid |-> eid] @@ raw} :
       \E visit \in {nul # -1 /\ should_visit_entry(Config, dir_map, entry)} :
       \E h0 \in {[hist EXCEPT !.entries = Append(@,
                     [eid |-> eid, parent |-> self, dir |-> nodes[self].base_offset,
                      index |-> f.i, name_off |-> raw.offset_into_str_list,
                      pointer |-> raw.pointer, size |-> raw.size, is_dir |-> raw.is_dir,
                      depth |-> raw.depth, in_map |-> raw.pointer \in DOMAIN dir_map,
                      ancestors |-> {nodes[stack[k].node].base_offset : k \in DOMAIN stack},
                      visit |-> visit, run |-> hist.constructions])]} :
           IF nul = -1
           THEN RaiseInConstruction("ValueError", nodes, dir_map, h0)
           ELSE IF ~visit
           THEN /\ stack' = next
                /\ hist' = h0
                /\ UNCHANGED <<nodes, dir_map, root, phase, error>>
           ELSE IF entry.is_dir # 0
           THEN \E r \in {DirectoryPrologue(nodes, dir_map, bin, Config, entry,
                                            nodes[self].depth + 1, nodes[self].path)} :
                \E h1 \in {LogDecode(h0, r, entry.pointer)}, child \in {Len(r.nodes)} :
                    CASE r.outcome = "raise" ->
                             RaiseInConstruction(r.exc, r.nodes, r.dir_map, h1)
                      [] r.outcome = "return" ->
                             /\ nodes' = [r.nodes EXCEPT ![self].directories = Append(@, child)]
                             /\ dir_map' = r.dir_map
                             /\ stack' = next
                             /\ hist' = h1
                             /\ UNCHANGED <<root, phase, error>>
                      [] r.outcome = "loop" ->
                             IF Len(stack) >= RecursionLimit
                             THEN RaiseInConstruction("RuntimeError", r.nodes, r.dir_map, h1)
                             ELSE /\ nodes' = r.nodes
                                  /\ dir_map' = r.dir_map
                                  /\ stack' = Append(stack, Frame(child, r.entries, r.name_list))
                                  /\ hist' = h1
                                  /\ UNCHANGED <<root, phase, error>>
           ELSE /\ nodes' = [Append(nodes, NewFile(entry, nodes[self].depth + 1,
                                                   nodes[self].path))
                                EXCEPT ![self].files = Append(@, Len(nodes) + 1)]
                /\ stack' = next
                /\ hist' = h0
                /\ UNCHANGED <<dir_map, root, phase, error>>

\* the loop is over: Directory.__init__ returns, to the loop of its parent
\* (line 163 appends the new directory) or to Aviation.__init__ (line 234)
DirectoryReturn ==
    /\ phase = "constructing"
    /\ stack # <<>>
    /\ Top(stack).i > Len(Top(stack).entries)
    /\ UNCHANGED <<prog, args, archive, Config, bin, dir_map, wstack, error,
                   fsDirs, fsFiles, exitStatus>>
    /\ LET self == Top(stack).node
           rest == Pop(stack)
       IN  IF rest = <<>>
           THEN /\ root' = self
                /\ phase' = "constructed"
                /\ stack' = <<>>
                /\ nodes' = nodes
                /\ hist' = LogConstructed(hist, self)
           ELSE LET p == Top(rest)
                IN  /\ nodes' = [nodes EXCEPT ![p.node].directories = Append(@, self)]
                    /\ stack' = SetTop(rest, [p EXCEPT !.i = @ + 1])
                    /\ UNCHANGED <<root, phase, hist>>

---------------------------------------------------------------------------
(* The __main__ script between construction and walk (lines 269-270) *)

MainSetConfig ==
    /\ prog = "main"
    /\ phase = "constructed"
    /\ Config' = IF args.extract_files
                 THEN SetConfigResult(Config, "write_to_disk", BoolVal(TRUE)).Config
                 ELSE Config
    /\ phase' = "configured"
    /\ UNCHANGED <<prog, args, archive, bin, dir_map, nodes, root, stack, wstack,
                   error, fsDirs, fsFiles, exitStatus, hist>>

---------------------------------------------------------------------------
(* The walk: Aviation.Walk, Directory.walk, File.walk *)

WalkFrame(node) == [node |-> node, i |-> 1, j |-> 1]

\* an exception raised in the walk is caught nowhere below the caller of Walk
RaiseInWalk(exc) ==
    /\ phase' = "failed"
    /\ error' = exc
    /\ wstack' = <<>>
    /\ hist' = [hist EXCEPT !.raised = exc]
    /\ UNCHANGED <<fsDirs, fsFiles>>

\* a call of Directory.walk on node n from a stack st (lines 190-192): the
\* interpreter refuses a call deeper than its recursion limit
CallDirectoryWalk(st, n) ==
    IF Len(st) >= RecursionLimit
    THEN RaiseInWalk("RuntimeError")
    ELSE IF Config.write_to_disk.val /\ MakedirsFails(fsDirs, fsFiles, nodes[n].path)
    THEN RaiseInWalk("OSError")
    ELSE /\ fsDirs' = IF Config.write_to_disk.val
                      THEN fsDirs \cup Prefixes(nodes[n].path)
                      ELSE fsDirs
         /\ wstack' = Append(st, WalkFrame(n))
         /\ phase' = "walking"
         /\ UNCHANGED <<fsFiles, error, hist>>

\* Aviation.Walk: self.root.walk()
AviationWalk ==
    /\ IF prog = "lib" THEN phase = "constructed" ELSE phase = "configured"
    /\ UNCHANGED <<prog, args, archive, Config, bin, dir_map, nodes, root, stack, exitStatus>>
    /\ LET h == [hist EXCEPT !.walks = @ + 1]
       IN  IF Config.write_to_disk.val /\ MakedirsFails(fsDirs, fsFiles, nodes[root].path)
           THEN /\ phase' = "failed"
                /\ error' = "OSError"
                /\ wstack' = <<>>
                /\ hist' = [h EXCEPT !.raised = "OSError"]
                /\ UNCHANGED <<fsDirs, fsFiles>>
           ELSE /\ fsDirs' = IF Config.write_to_disk.val
                             THEN fsDirs \cup Prefixes(nodes[root].path)
                             ELSE fsDirs
                /\ wstack' = <<WalkFrame(root)>>
                /\ phase' = "walking"
                /\ hist' = h
                /\ UNCHANGED <<fsFiles, error>>

\* for dir in self.directories: dir.walk()
DirectoryWalkChild ==
    /\ phase = "walking"
    /\ wstack # <<>>
    /\ Top(wstack).i <= Len(Directories(nodes, Top(wstack).node))
    /\ UNCHANGED <<prog, args, archive, Config, bin, dir_map, nodes, root, stack, exitStatus>>
    /\ LET f == Top(wstack)
           child == Directories(nodes, f.node)[f.i]
       IN  CallDirectoryWalk(SetTop(wstack, [f EXCEPT !.i = @ + 1]), child)

\* for file in self.files: file.walk()
FileWalk ==
    /\ phase = "walking"
    /\ wstack # <<>>
    /\ Top(wstack).i > Len(Directories(nodes, Top(wstack).node))
    /\ Top(wstack).j <= Len(Files(nodes, Top(wstack).node))
    /\ UNCHANGED <<prog, args, archive, Config, bin, dir_map, nodes, root, stack, exitStatus>>
    /\ LET f == Top(wstack)
           file == nodes[Files(nodes, f.node)[f.j]]
       IN  IF ~Config.write_to_disk.val
           THEN /\ wstack' = SetTop(wstack, [f EXCEPT !.j = @ + 1])
                /\ UNCHANGED <<phase, error, fsDirs, fsFiles, hist>>
           ELSE IF OpenFails(fsDirs, file.path)
           THEN RaiseInWalk("IOError")
           ELSE /\ fsFiles' = (file.path :> Slice(bin, file.base_offset,
                                                  file.base_offset + file.size)) @@ fsFiles
                /\ wstack' = SetTop(wstack, [f EXCEPT !.j = @ + 1])
                /\ UNCHANGED <<phase, error, fsDirs, hist>>

\* Directory.walk returns
DirectoryWalkReturn ==
    /\ phase = "walking"
    /\ wstack # <<>>
    /\ Top(wstack).i > Len(Directories(nodes, Top(wstack).node))
    /\ Top(wstack).j > Len(Files(nodes, Top(wstack).node))
    /\ wstack' = Pop(wstack)
    /\ phase' = IF Len(wstack) = 1 THEN "walked" ELSE "walking"
    /\ UNCHANGED <<prog, args, archive, Config, bin, dir_map, nodes, root, stack,
                   error, fsDirs, fsFiles, exitStatus, hist>>

---------------------------------------------------------------------------
(* The end of the __main__ script: "except AviationException as e: print e" *)
(* catches that exception and the script ends normally; any other          *)
(* exception ends the interpreter with a traceback and status 1            *)

ExitStatusOf(err) == IF err \in {"none", "AviationException"} THEN 0 ELSE 1

MainExit ==
    /\ prog = "main"
    /\ phase \in {"failed", "walked"}
    /\ phase' = "exited"
    /\ exitStatus' = ExitStatusOf(error)
    /\ UNCHANGED <<prog, args, archive, Config, bin, dir_map, nodes, root, stack,
                   wstack, error, fsDirs, fsFiles, hist>>

---------------------------------------------------------------------------

Next ==
    \/ \E key \in ConfigKeys, value \in BoolValues : SetConfig(key, value)
    \/ \E key \in ConfigKeys, value \in IntValues : SetConfig(key, value)
    \/ \E key \in ConfigKeys, value \in StrValues : SetConfig(key, value)
    \/ AviationInit
    \/ VisitEntry
    \/ DirectoryReturn
    \/ MainSetConfig
    \/ AviationWalk
    \/ DirectoryWalkChild
    \/ FileWalk
    \/ DirectoryWalkReturn
    \/ MainExit

Spec == Init /\ [][Next]_vars

---------------------------------------------------------------------------
(* What the properties read *)

avoid_double_entries == Config.avoid_double_entries.val
write_to_disk == Config.write_to_disk.val
depth_limit == Config.depth_limit.val

Entries == hist.entries
Decodes == hist.decodes
Outcomes == hist.outcomes

\* the children of node n in the tree: its two lists
Children(n) == Range(Directories(nodes, n)) \cup Range(Files(nodes, n))

\* the nodes k levels below the root
RECURSIVE NodesAtLevel(_)
NodesAtLevel(k) ==
    IF k = 0 THEN (IF root = 0 THEN {} ELSE {root})
    ELSE UNION {Children(n) : n \in NodesAtLevel(k - 1)}

\* the nodes of the resolved tree
TreeNodes == UNION {NodesAtLevel(k) : k \in 0..Len(nodes)}

\* entry e of the log has a node in a list of its parent
Present(e) == \E n \in Children(e.parent) : nodes[n].eid = e.eid

\* a Directory object was constructed and registered for entry e of the log
ResolvedDirectory(e) ==
    \E n \in DOMAIN nodes :
        nodes[n].eid = e.eid /\ nodes[n].kind = "dir"
            /\ e.pointer \in DOMAIN dir_map /\ dir_map[e.pointer] = n

\* entry e points to the directory that holds it or to an ancestor of it
ClosesCycle(e) == e.is_dir # 0 /\ e.pointer \in e.ancestors

\* how often the directory at pointer p was decoded
DecodeCount(p) == Cardinality({k \in DOMAIN Decodes : Decodes[k].pointer = p})

---------------------------------------------------------------------------
(* C1: building the tree ends, also on an archive with a pointer cycle and  *)
(* for either value of avoid_double_entries: no directory offset is        *)
(* decoded twice, the directories under construction are pairwise          *)
(* different offsets (so the recursion is no deeper than the number of     *)
(* offsets decoded), and the recursion limit is never hit.                 *)
C1_NoOffsetDecodedTwice ==
    /\ \A i, j \in DOMAIN Decodes : i # j => Decodes[i].pointer # Decodes[j].pointer
    /\ \A i, j \in DOMAIN stack :
           i # j => nodes[stack[i].node].base_offset # nodes[stack[j].node].base_offset
    /\ Len(stack) <= Len(Decodes)
    /\ \A k \in DOMAIN Outcomes : Outcomes[k].raised # "RuntimeError"

\* a construction that met a directory entry closing a pointer cycle, aliased
\* it, and returned a tree
C1_Witness ==
    /\ ~avoid_double_entries
    /\ phase = "constructed"
    /\ hist.constructions = 1
    /\ \E k \in DOMAIN Entries : ClosesCycle(Entries[k]) /\ Entries[k].visit

---------------------------------------------------------------------------
(* C2, as stated: with avoid_double_entries=true, of two entries with the   *)
(* same pointer (files or directories) the one met second is in no list of *)
(* its parent.                                                             *)
C2_SecondOfAnyTwoAbsent ==
    avoid_double_entries =>
        \A i, j \in DOMAIN Entries :
            (i < j /\ Entries[i].pointer = Entries[j].pointer) => ~Present(Entries[j])

(* C2, amended: with avoid_double_entries=true, an entry whose pointer is   *)
(* the root's offset 0 or the pointer of a directory entry that was        *)
(* resolved (constructed and registered) earlier in the walk is in no list *)
(* of its parent.                                                          *)
C2_DuplicateOfDirectoryAbsent ==
    avoid_double_entries =>
        \A j \in DOMAIN Entries :
            (\/ Entries[j].pointer = OffRoot
             \/ \E i \in DOMAIN Entries :
                    i < j /\ Entries[i].pointer = Entries[j].pointer
                          /\ ResolvedDirectory(Entries[i]))
            => ~Present(Entries[j])

\* a finished tree with avoid_double_entries=true whose archive holds a file
\* entry and a directory entry that repeat the pointer of a resolved directory
C2_Witness ==
    /\ avoid_double_entries
    /\ phase = "constructed"
    /\ \E i, j \in DOMAIN Entries :
           /\ i < j
           /\ Entries[i].pointer = Entries[j].pointer
           /\ ResolvedDirectory(Entries[i])
           /\ ~Entries[j].visit
    /\ \E j \in DOMAIN Entries :
           Entries[j].pointer = OffRoot /\ Entries[j].is_dir = 0 /\ ~Entries[j].visit

---------------------------------------------------------------------------
\* what the claims compare of a child: its kind, name and size
Describe(n) == [kind |-> nodes[n].kind, name |-> nodes[n].name, size |-> nodes[n].size]

ChildDirectories(n) ==
    [k \in DOMAIN Directories(nodes, n) |-> Describe(Directories(nodes, n)[k])]

ChildFiles(n) == [k \in DOMAIN Files(nodes, n) |-> Describe(Files(nodes, n)[k])]

\* the directory nodes built for a pointer that an earlier node had registered
Aliases ==
    {n \in DOMAIN nodes :
        /\ nodes[n].kind = "dir"
        /\ nodes[n].listsOf # 0
        /\ nodes[n].base_offset \in DOMAIN dir_map
        /\ dir_map[nodes[n].base_offset] # n}

(* C3: with avoid_double_entries=false, once a tree is returned, the node   *)
(* built for a pointer that was resolved before has the child directories  *)
(* and child files (names, sizes, order) of the node first built for that  *)
(* pointer, and the directory at that pointer was decoded exactly once.    *)
C3_AliasHasSameChildren ==
    (~avoid_double_entries /\ root # 0) =>
        \A n \in Aliases :
            /\ ChildDirectories(n) = ChildDirectories(dir_map[nodes[n].base_offset])
            /\ ChildFiles(n) = ChildFiles(dir_map[nodes[n].base_offset])
            /\ DecodeCount(nodes[n].base_offset) = 1

\* a returned tree in which a directory entry is the alias of the directory
\* that holds it (whose lists grew after the alias was made) and has children
C3_Witness ==
    /\ ~avoid_double_entries
    /\ root # 0
    /\ \E n \in Aliases :
           /\ nodes[n].eid # 0
           /\ n \in Range(Directories(nodes, n))
           /\ Len(ChildDirectories(n)) >= 2

---------------------------------------------------------------------------
(* C4: a second Aviation object constructed in the same process, for the    *)
(* same archive and configuration, ends as the first construction did: the *)
(* same error or none, and a root with the same children.                  *)
C4_SecondConstructionAsFirst ==
    Len(Outcomes) >= 2 =>
        /\ Outcomes[2].error = Outcomes[1].error
        /\ (Outcomes[1].root = 0) = (Outcomes[2].root = 0)
        /\ Outcomes[1].root # 0 =>
               /\ ChildDirectories(Outcomes[2].root) = ChildDirectories(Outcomes[1].root)
               /\ ChildFiles(Outcomes[2].root) = ChildFiles(Outcomes[1].root)

---------------------------------------------------------------------------
---------------------------------------------------------------------------
\* the file nodes of the returned tree
TreeFiles == {n \in TreeNodes : nodes[n].kind = "file"}

(* C6: after a walk in extract mode every file node of the tree has a file  *)
(* on disk of exactly the entry's size, holding the archive's bytes        *)
(* byte_offset .. byte_offset+size-1; no file is shorter.                  *)
C6_ExtractedFilesExact ==
    (phase = "walked" /\ write_to_disk) =>
        \A n \in TreeFiles :
            /\ nodes[n].path \in DOMAIN fsFiles
            /\ Len(fsFiles[nodes[n].path]) = nodes[n].size
            /\ nodes[n].base_offset + nodes[n].size <= Len(bin)
            /\ fsFiles[nodes[n].path]
                   = SubSeq(bin, nodes[n].base_offset + 1, nodes[n].base_offset + nodes[n].size)

---------------------------------------------------------------------------
\* the directory header at offset o claims an entry table that ends past the
\* end of the archive
TableOverrun(buf, o) ==
    /\ o + WordSize <= Len(buf)
    /\ o + WordSize + EntrySize * DecodeU32(buf, o) > Len(buf)

\* where the string table length of the directory at offset o is stored
StringsLenAt(buf, o) == o + WordSize + EntrySize * DecodeU32(buf, o)

\* the directory at offset o claims a string table that ends past the end
StringsOverrun(buf, o) ==
    /\ o + WordSize <= Len(buf)
    /\ StringsLenAt(buf, o) + WordSize <= Len(buf)
    /\ StringsLenAt(buf, o) + WordSize + DecodeU32(buf, StringsLenAt(buf, o)) > Len(buf)

(* C7: when a directory reached during the construction claims an entry     *)
(* table or a string table that extends past the end of the archive, that  *)
(* construction ends with AviationException (raised from struct.error) and *)
(* returns no tree.                                                        *)
C7_OverrunIsMalformedArchive ==
    \A k \in DOMAIN Decodes :
        (TableOverrun(archive, Decodes[k].pointer) \/ StringsOverrun(archive, Decodes[k].pointer))
        => /\ Len(Outcomes) >= Decodes[k].run
           /\ Outcomes[Decodes[k].run].error = "AviationException"
           /\ Outcomes[Decodes[k].run].raised = "struct.error"
           /\ Outcomes[Decodes[k].run].root = 0
           /\ (hist.constructions = Decodes[k].run => root = 0)

\* a construction that failed at a directory whose string
\* table is claimed longer than the rest of the archive
C7_Witness ==
    /\ phase = "failed"
    /\ error = "AviationException"
    /\ root = 0
    /\ Decodes # <<>>
    /\ StringsOverrun(bin, Decodes[Len(Decodes)].pointer)

\* the same for an entry table claimed longer than the rest of the archive
C7_WitnessTable ==
    /\ phase = "failed"
    /\ error = "AviationException"
    /\ Decodes # <<>>
    /\ TableOverrun(bin, Decodes[Len(Decodes)].pointer)

---------------------------------------------------------------------------
\* the string table of the directory at offset o (which was decoded)
StringTable(buf, o) ==
    SubSeq(buf, StringsLenAt(buf, o) + WordSize + 1,
           StringsLenAt(buf, o) + WordSize + DecodeU32(buf, StringsLenAt(buf, o)))

\* no NUL between the name offset of entry e and the end of its string table
Unterminated(buf, e) ==
    \A k \in (e.name_off + 1)..Len(StringTable(buf, e.dir)) : StringTable(buf, e.dir)[k] # 0

(* C8: an entry whose name has no terminating NUL in its directory's string *)
(* table makes the construction fail with AviationException.               *)
C8_UnterminatedNameIsMalformedArchive ==
    \A k \in DOMAIN Entries :
        Unterminated(archive, Entries[k]) =>
            /\ Len(Outcomes) >= Entries[k].run
            /\ Outcomes[Entries[k].run].error = "AviationException"

---------------------------------------------------------------------------
(* C9: the command-line run ends with exit status zero exactly when no      *)
(* exception was raised in construction, configuration and walk.           *)
C9_ExitStatusTellsFailure ==
    (prog = "main" /\ phase = "exited") => (exitStatus = 0 <=> hist.raised = "none")

---------------------------------------------------------------------------
(* C10: in a command-line run with -e whose working directory already holds *)
(* a root directory, that directory has been removed when the walk starts  *)
(* to create directories and files, and the walk's creation of root does   *)
(* not fail.                                                               *)
C10_RootRemovedBeforeExtraction ==
    (prog = "main" /\ args.extract_files /\ hist.preRoot /\ hist.walks > 0) =>
        /\ hist.rmtree
        /\ hist.raised # "OSError"

---------------------------------------------------------------------------
(* Entry.__init__ on its own: one 20-byte entry record is mapped, an Entry  *)
(* object is built from it (build_struct, then build_bit_field on the      *)
(* attributes just read), and the caller rewrites one bit of the attribute *)
(* word of the record before it builds the object again.  The attribute    *)
(* words are below 2^31.                                                   *)

\* how many bits of the attribute word one run rewrites
MaxFlips == 2

\* the bits of an attribute word the run rewrites: all but is_dir
OtherBits == (0..30) \ {IsDirBit}

\* the attribute words the runs start from
AttrWords ==
    {0, Pow2(IsDirBit), DirAttr, FileAttr,
     (Pow2(30) - 1) + Pow2(30), (Pow2(30) - 1) + Pow2(30) - Pow2(IsDirBit)}

EntryRecord(w) ==
    EncodeEntry([offset_into_str_list |-> 0, pointer |-> OffF, size |-> 1,
                 attributes |-> w, reserved1 |-> 0])

\* bit k of w, and w with bit k inverted
BitOf(w, k) == (w \div Pow2(k)) % 2
FlipBit(w, k) == IF BitOf(w, k) = 1 THEN w - Pow2(k) ELSE w + Pow2(k)

InitAttr ==
    /\ prog = "lib"
    /\ args = [input_exists |-> TRUE, working_dir_ok |-> TRUE, extract_files |-> FALSE]
    /\ \E w \in AttrWords :
          /\ archive = EntryRecord(w)
          /\ hist = [word |-> w, flips |-> 0, is_dir_before |-> -1]
    /\ bin = archive
    /\ Config = DefaultConfig
    /\ dir_map = <<>>
    /\ nodes = <<>>
    /\ root = 0
    /\ stack = <<>>
    /\ wstack = <<>>
    /\ phase = "idle"
    /\ error = "none"
    /\ fsDirs = {<<>>}
    /\ fsFiles = <<>>
    /\ exitStatus = -1

\* Entry(parent, depth) with the parent's cursor at the record
EntryConstruct ==
    /\ phase = "idle"
    /\ nodes' = <<EntryInit(bin, 0, 1).object>>
    /\ phase' = "decoded"
    /\ UNCHANGED <<prog, args, archive, Config, bin, dir_map, root, stack, wstack,
                   error, fsDirs, fsFiles, exitStatus, hist>>

\* the record gets an attribute word that differs in bit k from the one read
RewriteAttrBit(k) ==
    /\ phase = "decoded"
    /\ hist.flips < MaxFlips
    /\ archive' = EntryRecord(FlipBit(hist.word, k))
    /\ bin' = archive'
    /\ hist' = [word |-> FlipBit(hist.word, k), flips |-> hist.flips + 1,
                is_dir_before |-> nodes[1].is_dir]
    /\ nodes' = <<>>
    /\ phase' = "idle"
    /\ UNCHANGED <<prog, args, Config, dir_map, root, stack, wstack,
                   error, fsDirs, fsFiles, exitStatus>>

NextAttr ==
    \/ EntryConstruct
    \/ \E k \in OtherBits : RewriteAttrBit(k)

SpecAttr == InitAttr /\ [][NextAttr]_vars

(* C11: the is_dir field of an Entry built from an attribute word is bit 15 *)
(* of the word, (attr_word >> 15) & 1: 1 for 0x00008000, 0 for 0x00000000,  *)
(* and the same as before whenever a bit other than bit 15 was changed.    *)
C11_IsDirIsBit15 ==
    phase = "decoded" =>
        /\ nodes[1].is_dir = BitOf(nodes[1].attributes, 15)
        /\ nodes[1].attributes = hist.word
        /\ hist.word = 32768 => nodes[1].is_dir = 1
        /\ hist.word = 0 => nodes[1].is_dir = 0
        /\ hist.is_dir_before # -1 => nodes[1].is_dir = hist.is_dir_before

\* an Entry built after bits below and above bit 15 were changed, with is_dir
\* set and both reserved fields non-zero
C11_Witness ==
    /\ phase = "decoded"
    /\ hist.flips = 2
    /\ nodes[1].is_dir = 1
    /\ nodes[1].reserved2 # 0
    /\ nodes[1].reserved3 # 0
    /\ hist.word # DirAttr

---------------------------------------------------------------------------
\* the options of Aviation.Config, as the claim lists them
OptionNames == {"avoid_double_entries", "write_to_disk", "depth_limit"}

\* what a step SetConfig(key=value) has to do
SetConfigContract(key, value) ==
    SetConfig(key, value) =>
        LET fails == key \notin OptionNames \/ Config[key].type # value.type
        IN  /\ (error' = "AviationException") = fails
            /\ (error' = "none") = ~fails
            /\ fails => Config' = Config
            /\ ~fails => /\ Config'[key] = value
                         /\ \A other \in OptionNames \ {key} : Config'[other] = Config[other]
            /\ DOMAIN Config' = OptionNames

(* C12: SetConfig(key=value) raises AviationException exactly when key is   *)
(* none of avoid_double_entries, write_to_disk, depth_limit or the type of *)
(* value differs from the type of the option's current value; when it      *)
(* raises, the options keep their values; when it does not, the option     *)
(* becomes value and the other options keep theirs.                        *)
C12_SetConfigFailsExactlyOnUnknownOrMistyped ==
    [][/\ \A key \in ConfigKeys, value \in BoolValues : SetConfigContract(key, value)
       /\ \A key \in ConfigKeys, value \in IntValues : SetConfigContract(key, value)
       /\ \A key \in ConfigKeys, value \in StrValues : SetConfigContract(key, value)]_vars

\* a caller that changed two options and then had a SetConfig refused
C12_Witness ==
    /\ prog = "lib"
    /\ phase = "idle"
    /\ error = "AviationException"
    /\ ~Config.avoid_double_entries.val
    /\ Config.depth_limit.val = 2
    /\ ~Config.write_to_disk.val

---------------------------------------------------------------------------
(* C13: with avoid_double_entries=false and depth_limit > 0, a directory    *)
(* entry whose pointer is already in dir_map and whose depth exceeds the   *)
(* depth limit is resolved as an alias of the node registered for that     *)
(* pointer (aliasing decides before the depth limit); it is not skipped.   *)
C13_AliasDecidesBeforeDepthLimit ==
    (~avoid_double_entries /\ depth_limit > 0) =>
        \A k \in DOMAIN Entries :
            (/\ Entries[k].is_dir # 0
             /\ Entries[k].in_map
             /\ Entries[k].depth > depth_limit
             /\ Entries[k].pointer \notin invalid_entries)
            => /\ Present(Entries[k])
               /\ \E n \in Aliases : nodes[n].eid = Entries[k].eid

---------------------------------------------------------------------------
(* C14: in the first construction of a process (dir_map empty when it       *)
(* starts) with avoid_double_entries=true, assert(False) of                *)
(* Directory.__init__ is never reached: every entry for which a Directory  *)
(* is constructed had its pointer absent from dir_map when                 *)
(* __should_visit_entry looked, and the construction does not end with     *)
(* AssertionError.                                                         *)
C14_AssertionNeverReached ==
    avoid_double_entries =>
        /\ \A k \in DOMAIN Entries :
               (Entries[k].run = 1 /\ Entries[k].visit /\ Entries[k].is_dir # 0)
               => ~Entries[k].in_map
        /\ Len(Outcomes) >= 1 => Outcomes[1].raised # "AssertionError"
        /\ hist.constructions = 1 => hist.raised # "AssertionError"

\* a first construction with avoid_double_entries=true that returned a tree
\* after it built a directory for one entry and filtered a later directory
\* entry whose pointer was registered
C14_Witness ==
    /\ avoid_double_entries
    /\ hist.constructions = 1
    /\ phase = "constructed"
    /\ \E i, j \in DOMAIN Entries :
           /\ i < j
           /\ Entries[i].is_dir # 0 /\ Entries[i].visit
           /\ Entries[j].is_dir # 0 /\ Entries[j].in_map /\ ~Entries[j].visit
           /\ Entries[j].pointer = Entries[i].pointer

---------------------------------------------------------------------------
(* C15: registration precedes recursion.  Whenever an entry of a directory  *)
(* is about to be filtered or a child of it constructed, the pointer of    *)
(* that directory and of every directory on the construction path above it *)
(* is a key of dir_map, mapped to the node under construction.             *)
C15_RegisteredBeforeRecursion ==
    \A k \in DOMAIN stack :
        /\ nodes[stack[k].node].kind = "dir"
        /\ nodes[stack[k].node].base_offset \in DOMAIN dir_map
        /\ dir_map[nodes[stack[k].node].base_offset] = stack[k].node

\* an entry two directories below the root is about to be filtered
C15_Witness ==
    /\ phase = "constructing"
    /\ Len(stack) = 3
    /\ Top(stack).i <= Len(Top(stack).entries)
    /\ nodes[stack[1].node].base_offset = OffRoot
    /\ Cardinality(DOMAIN dir_map) = 3

---------------------------------------------------------------------------
(* C16: for either value of avoid_double_entries and any depth_limit, no    *)
(* node in a files or directories list has a pointer of invalid_entries,   *)
(* no node was built from an entry with such a pointer, and no directory   *)
(* header was decoded at such a pointer.                                   *)
C16_DenylistedPointerNeverResolved ==
    /\ \A p \in DOMAIN nodes : \A c \in Children(p) :
           nodes[c].base_offset \notin invalid_entries
    /\ \A n \in DOMAIN nodes : nodes[n].base_offset \notin invalid_entries
    /\ \A k \in DOMAIN Decodes : Decodes[k].pointer \notin invalid_entries
    /\ \A k \in DOMAIN Entries :
           Entries[k].pointer \in invalid_entries => ~Entries[k].visit

\* a returned tree whose archive holds a directory entry and a file entry with
\* the pointer 0x254574ac, both met by the construction
C16_Witness ==
    /\ phase = "constructed"
    /\ \E i, j \in DOMAIN Entries :
           /\ Entries[i].pointer = InvalidPointer /\ Entries[i].is_dir # 0
           /\ Entries[j].pointer = InvalidPointer /\ Entries[j].is_dir = 0
    /\ NodesAtLevel(2) # {}

---------------------------------------------------------------------------
\* the directory nodes reached from the nodes of S by following directories
\* lists at most k more times
RECURSIVE DirectoriesWithin(_, _)
DirectoriesWithin(S, k) ==
    IF k = 0 THEN S
    ELSE DirectoriesWithin(S \cup UNION {Range(Directories(nodes, n)) : n \in S}, k - 1)

\* the directory nodes below node n
DirectoriesBelow(n) == DirectoriesWithin(Range(Directories(nodes, n)), Len(nodes))

(* C17: Aviation.Walk ends on every tree a construction returned, for       *)
(* either value of avoid_double_entries: no directory node of the tree is  *)
(* reached from itself by following directories lists, and the walk never  *)
(* exhausts the recursion limit.                                           *)
C17_WalkTerminates ==
    root # 0 =>
        /\ \A n \in TreeNodes : n \notin DirectoriesBelow(n)
        /\ hist.walks > 0 => hist.raised # "RuntimeError"

---------------------------------------------------------------------------
(* C18: for every directory node P of the returned tree and every node C    *)
(* in its files or directories list, C.depth = P.depth + 1 and             *)
(* C.path = P.path + separator + C.name, for either value of               *)
(* avoid_double_entries.                                                   *)
C18_ChildrenBelowParent ==
    root # 0 =>
        \A P \in TreeNodes : \A C \in Children(P) :
            /\ nodes[C].depth = nodes[P].depth + 1
            /\ nodes[C].path = Append(nodes[P].path, nodes[C].name)

====
